---- MODULE Spec2Model ----
(***************************************************************************)
(* A model of package creditcard (raohwork/creditcard): the PAN value      *)
(* (type info), its constructors FromSlice / FromPart / FromDashed /       *)
(* FromRaw / FromMasked, the issuer classifier cardType, the checksum      *)
(* validation info.Validate and the formatting accessors.                  *)
(*                                                                         *)
(* A Go string is modelled as a sequence of one-character strings, one per *)
(* byte, so that len(), slicing, concatenation and regexp matching are     *)
(* computed as the code computes them.  A Go slice of strings is a record  *)
(* [array, len]: its backing array (Len(array) is the capacity) and its    *)
(* length.                                                                 *)
(***************************************************************************)
EXTENDS Integers, Sequences, FiniteSets, TLC

VARIABLES pc, call, arr, str, first6, last4, ret, err, verr

vars == <<pc, call, arr, str, first6, last4, ret, err, verr>>

----------------------------------------------------------------------------
(* Bytes *)

DigitChars == <<"0", "1", "2", "3", "4", "5", "6", "7", "8", "9">>

Digit == {DigitChars[k] : k \in 1..10}

\* the byte value of a character
Ord(c) ==
    CASE c \in Digit -> 47 + (CHOOSE k \in 1..10 : DigitChars[k] = c)
      [] c = "*" -> 42
      [] c = "-" -> 45
      [] c = "a" -> 97

\* strings.Repeat(c, n)
Repeat(c, n) == [k \in 1..n |-> c]

\* s[lo:hi] of Go, 0-based, hi exclusive
Slice(s, lo, hi) == SubSeq(s, lo + 1, hi)

\* a character of the class [lo-hi]
InClass(c, lo, hi) == c \in Digit /\ Ord(lo) <= Ord(c) /\ Ord(c) <= Ord(hi)

\* s begins with a character of the class at 0-based position k
At(s, k, lo, hi) == Len(s) > k /\ InClass(s[k + 1], lo, hi)

----------------------------------------------------------------------------
(* type.go *)

UnknownCardType == -1
VISACard == 2
MasterCard == 3
JCBCard == 4
AmericanExpress == 5
UnionPay == 6

nil == "nil"
ErrSection == "ErrSection"
ErrRaw == "ErrRaw"
ErrMasked == "ErrMasked"
ErrValidateMasked == "ErrValidateMasked"
ErrValidate == "ErrValidate"

\* the nil Info returned beside an error
NoInfo == [pan |-> <<>>, typ |-> 0]

----------------------------------------------------------------------------
(* info_func.go: the issuer classifier *)

\* reVISA without its anchor: "4"
reVISA_unanchored(s) == \E k \in 1..Len(s) : s[k] = "4"

\* "^4"
reVISA(s) == At(s, 0, "4", "4")

\* "^(5[1-5]|222[1-9]|22[3-9][0-9]|27[01][0-9]|2720)"
reMaster(s) ==
    \/ At(s, 0, "5", "5") /\ At(s, 1, "1", "5")
    \/ At(s, 0, "2", "2") /\ At(s, 1, "2", "2") /\ At(s, 2, "2", "2") /\ At(s, 3, "1", "9")
    \/ At(s, 0, "2", "2") /\ At(s, 1, "2", "2") /\ At(s, 2, "3", "9") /\ At(s, 3, "0", "9")
    \/ At(s, 0, "2", "2") /\ At(s, 1, "7", "7") /\ At(s, 2, "0", "1") /\ At(s, 3, "0", "9")
    \/ At(s, 0, "2", "2") /\ At(s, 1, "7", "7") /\ At(s, 2, "2", "2") /\ At(s, 3, "0", "0")

\* "^3[47]"
reAmericanExpress(s) ==
    At(s, 0, "3", "3") /\ (At(s, 1, "4", "4") \/ At(s, 1, "7", "7"))

\* reJCB with the second class one too wide: "^35(2[89]|[3-9][0-9])"
reJCB_wide(s) ==
    /\ At(s, 0, "3", "3")
    /\ At(s, 1, "5", "5")
    /\ \/ At(s, 2, "2", "2") /\ At(s, 3, "8", "9")
       \/ At(s, 2, "3", "9") /\ At(s, 3, "0", "9")

\* "^35(2[89]|[3-8][0-9])"
reJCB(s) ==
    /\ At(s, 0, "3", "3")
    /\ At(s, 1, "5", "5")
    /\ \/ At(s, 2, "2", "2") /\ At(s, 3, "8", "9")
       \/ At(s, 2, "3", "8") /\ At(s, 3, "0", "9")

\* "^(62|81)"
reUnionPay(s) ==
    \/ At(s, 0, "6", "6") /\ At(s, 1, "2", "2")
    \/ At(s, 0, "8", "8") /\ At(s, 1, "1", "1")

cardType(pan) ==
    IF reVISA(pan[1]) THEN VISACard
    ELSE IF reMaster(pan[1]) THEN MasterCard
    ELSE IF reAmericanExpress(pan[1]) THEN AmericanExpress
    ELSE IF reJCB(pan[1]) THEN JCBCard
    ELSE IF reUnionPay(pan[1]) THEN UnionPay
    ELSE UnknownCardType

----------------------------------------------------------------------------
(* info_func.go: accessors *)

\* strings.Join(a, sep)
RECURSIVE Join(_, _)
Join(a, sep) ==
    IF Len(a) = 0 THEN <<>>
    ELSE IF Len(a) = 1 THEN a[1]
    ELSE a[1] \o sep \o Join(Tail(a), sep)

CardType(i) == i.typ

Checksum(i) == Slice(i.pan[4], 3, Len(i.pan[4]))

Last4(i) == i.pan[4]

First6(i) == i.pan[1] \o Slice(i.pan[2], 0, 2)

FullLast4(i) == <<"*", "*", "*", "*", "-", "*", "*", "*", "*", "-", "*", "*", "*", "*", "-">> \o i.pan[4]

FullFirst6(i) ==
    i.pan[1] \o <<"-">> \o Slice(i.pan[2], 0, 2)
        \o <<"*", "*", "-", "*", "*", "*", "*", "-", "*", "*", "*", "*">>

RawMasked(i) == First6(i) \o <<"*", "*", "*", "*", "*", "*">> \o Last4(i)

\* Masked showing the whole second section
Masked_wholeSecond(i) ==
    i.pan[1] \o <<"-">> \o i.pan[2]
        \o <<"-", "*", "*", "*", "*", "-">> \o i.pan[4]

Masked(i) ==
    i.pan[1] \o <<"-">> \o Slice(i.pan[2], 0, 2)
        \o <<"*", "*", "-", "*", "*", "*", "*", "-">> \o i.pan[4]

\* RawPAN joining the sections with dashes
RawPAN_dashed(i) == Join(i.pan, <<"-">>)

RawPAN(i) == Join(i.pan, <<>>)

PAN(i) == Join(i.pan, <<"-">>)

----------------------------------------------------------------------------
(* info_func.go: Validate *)

\* arithmetic of Go's byte
Byte(n) == n % 256

\* the loop of Validate doubling at the even indices
RECURSIVE validateLoop_evenDoubled(_, _, _)
validateLoop_evenDoubled(digits, idx, sum) ==
    IF idx >= Len(digits) THEN sum
    ELSE LET x == IF idx % 2 = 0 THEN 2 ELSE 1
             c0 == Byte(Ord(digits[idx + 1]) - Ord("0"))
             c1 == Byte(c0 * x)
             c2 == IF c1 > 9 THEN Byte(c1 - 9) ELSE c1
         IN  validateLoop_evenDoubled(digits, idx + 1, Byte(sum + c2))

\* the loop of Validate over pan[:l-1], from index idx on, sum so far given
RECURSIVE validateLoop(_, _, _)
validateLoop(digits, idx, sum) ==
    IF idx >= Len(digits) THEN sum
    ELSE LET x == IF idx % 2 = 0 THEN 1 ELSE 2
             c0 == Byte(Ord(digits[idx + 1]) - Ord("0"))
             c1 == Byte(c0 * x)
             c2 == IF c1 > 9 THEN Byte(c1 - 9) ELSE c1
         IN  validateLoop(digits, idx + 1, Byte(sum + c2))

Validate(i) ==
    LET pan == RawPAN(i)
        l == Len(pan)
    IN  IF \E k \in 1..l : pan[k] = "*" THEN ErrValidateMasked
        ELSE LET checksum == Byte(Ord(pan[l]) - Ord("0"))
                 sum == validateLoop(Slice(pan, 0, l - 1), 0, 0)
             IN  IF Byte(checksum + sum) % 10 # 0 THEN ErrValidate ELSE nil

----------------------------------------------------------------------------
(* info_func.go: constructors *)

\* reSlicedPAN letting five characters through: "^[0-9*]{0,5}$"
reSlicedPAN_upTo5(v) ==
    Len(v) <= 5 /\ \A k \in 1..Len(v) : v[k] \in Digit \cup {"*"}

\* "^[0-9*]{0,4}$"
reSlicedPAN(v) ==
    Len(v) <= 4 /\ \A k \in 1..Len(v) : v[k] \in Digit \cup {"*"}

\* a slice over its own new backing array
NewSlice(a) == [array |-> a, len |-> Len(a)]

\* The slice FromSlice works on: array and len as in a slice, shared = the
\* array is still the caller's backing array, mem = the caller's backing
\* array.
Enter(sl) == [array |-> sl.array, len |-> sl.len, shared |-> TRUE, mem |-> sl.array]

\* append(arr, v): in place while the capacity allows, else on a new array
append(st, v) ==
    IF st.len < Len(st.array)
    THEN [st EXCEPT !.array[st.len + 1] = v,
                    !.len = st.len + 1,
                    !.mem = IF st.shared THEN [st.array EXCEPT ![st.len + 1] = v]
                            ELSE st.mem]
    ELSE [st EXCEPT !.array = SubSeq(st.array, 1, st.len) \o <<v>>,
                    !.len = st.len + 1,
                    !.shared = FALSE]

\* arr[idx] = v
Store(st, idx, v) ==
    [st EXCEPT !.array[idx + 1] = v,
               !.mem = IF st.shared THEN [st.array EXCEPT ![idx + 1] = v]
                       ELSE st.mem]

\* for l < 4 { arr = append(arr, "") }
RECURSIVE padLoop(_)
padLoop(st) ==
    IF st.len < 4 THEN padLoop(append(st, <<>>)) ELSE st

\* for idx, v := range arr { ... }
RECURSIVE rangeLoop(_, _)
rangeLoop(st, idx) ==
    IF idx >= st.len THEN [st |-> st, err |-> nil]
    ELSE LET v == st.array[idx + 1]
         IN  IF ~reSlicedPAN(v) THEN [st |-> st, err |-> ErrSection]
             ELSE IF Len(v) < 4
                  THEN rangeLoop(Store(st, idx, v \o Repeat("*", 4 - Len(v))), idx + 1)
                  ELSE rangeLoop(st, idx + 1)

\* FromSlice: the value returned, the error, and the caller's backing array
\* when it returns
FromSlice(sl) ==
    IF sl.len > 4 THEN [ret |-> NoInfo, err |-> ErrSection, array |-> sl.array]
    ELSE LET r == rangeLoop(padLoop(Enter(sl)), 0)
             a == r.st.array
             pan == <<a[1], a[2], a[3], a[4]>>
         IN  IF r.err # nil
             THEN [ret |-> NoInfo, err |-> r.err, array |-> r.st.mem]
             ELSE [ret |-> [pan |-> pan, typ |-> cardType(pan)],
                   err |-> nil, array |-> r.st.mem]

\* strings.Split(s, sep), sep one character
RECURSIVE Split(_, _)
Split(s, sep) ==
    IF \A k \in 1..Len(s) : s[k] # sep THEN <<s>>
    ELSE LET k == CHOOSE j \in 1..Len(s) :
                      s[j] = sep /\ \A h \in 1..(j - 1) : s[h] # sep
         IN  <<SubSeq(s, 1, k - 1)>> \o Split(SubSeq(s, k + 1, Len(s)), sep)

FromPart(parts) == FromSlice(parts)

FromDashed(s) == FromSlice(NewSlice(Split(s, "-")))

\* FromRaw refusing only the strings that are too short
FromRaw_shortOnly(s) ==
    IF Len(s) < 16 THEN [ret |-> NoInfo, err |-> ErrRaw, array |-> <<>>]
    ELSE FromPart(NewSlice(<<Slice(s, 0, 4), Slice(s, 4, 8),
                             Slice(s, 8, 12), Slice(s, 12, Len(s))>>))

FromRaw(s) ==
    IF Len(s) # 16 THEN [ret |-> NoInfo, err |-> ErrRaw, array |-> <<>>]
    ELSE FromPart(NewSlice(<<Slice(s, 0, 4), Slice(s, 4, 8),
                             Slice(s, 8, 12), Slice(s, 12, Len(s))>>))

\* FromMasked without the length check of last4
FromMasked_noLast4Check(f6, l4) ==
    IF Len(f6) # 6 THEN [ret |-> NoInfo, err |-> ErrMasked, array |-> <<>>]
    ELSE FromPart(NewSlice(<<Slice(f6, 0, 4), Slice(f6, 4, Len(f6)) \o <<"*", "*">>,
                             <<"*", "*", "*", "*">>, l4>>))

FromMasked(f6, l4) ==
    IF Len(f6) # 6 \/ Len(l4) # 4 THEN [ret |-> NoInfo, err |-> ErrMasked, array |-> <<>>]
    ELSE FromPart(NewSlice(<<Slice(f6, 0, 4), Slice(f6, 4, Len(f6)) \o <<"*", "*">>,
                             <<"*", "*", "*", "*">>, l4>>))

----------------------------------------------------------------------------
(* The inputs the caller hands to the package *)

MaxRawLen == 17
MaxFragments == 5
MaxFragLen == 5
MaxSpare == 4
MaxFirst6Len == 7
MaxLast4Len == 5

\* characters put in place of a digit: a mask, a letter, a dash, another digit
Defects == {"*", "a", "-", "7"}

\* n times base, with c at position p (p = 0: nowhere)
OneOff(base, n, p, c) == [k \in 1..n |-> IF k = p THEN c ELSE base]

Variants(base, maxlen) ==
    {OneOff(base, n, p, c) : n \in 0..maxlen, p \in 0..maxlen, c \in Defects}

\* the four decimal digits of n
Digits4(n) ==
    <<DigitChars[((n \div 1000) % 10) + 1], DigitChars[((n \div 100) % 10) + 1],
      DigitChars[((n \div 10) % 10) + 1], DigitChars[(n % 10) + 1]>>

\* every first section, followed by twelve equal characters
PrefixRaw == {Digits4(n) \o Repeat(c, 12) : n \in 0..9999, c \in {"0", "9", "*"}}

\* sixteen characters, zero but for digit a at i, digit b at j > i and the last
DigitsRaw ==
    {[k \in 1..16 |-> IF k = 16 THEN chk
                      ELSE IF k = i THEN a
                      ELSE IF k = j THEN b ELSE "0"] :
        i \in 1..15, j \in 2..16, a \in Digit, b \in {"0", "7", "9"},
        chk \in Digit \cup {"*"}}

\* sixteen equal digits but for the last
UniformRaw == {Repeat(a, 15) \o <<chk>> : a \in Digit, chk \in Digit \cup {"*"}}

SampleRaw ==
    {<<"1", "2", "3", "4", "5", "6", "7", "8", "9", "0", "1", "2", "3", "4", "5", "6">>,
     <<"4", "1", "1", "1", "1", "1", "1", "1", "1", "1", "1", "1", "1", "1", "1", "1">>}

RawInputs ==
    PrefixRaw \cup DigitsRaw \cup UniformRaw \cup SampleRaw
        \cup Variants("1", MaxRawLen)

SampleFragments ==
    {<<>>, <<"5", "6">>, <<"1", "2", "3", "4">>, <<"1", "a">>}

SampleSections ==
    << <<"1", "2", "3", "4">>, <<"5", "6", "7", "8">>,
       <<"9", "0", "1", "2">>, <<"3", "4", "5", "6">> >>

\* lists of sample fragments
MixedLists ==
    UNION {[1..n -> SampleFragments] : n \in 0..MaxFragments}

\* the first n sample sections (zeros after the fourth), one fragment replaced
OneOffLists ==
    {[k \in 1..n |-> IF k = p THEN f
                     ELSE IF k <= 4 THEN SampleSections[k] ELSE Repeat("0", 4)] :
        n \in 0..MaxFragments, p \in 0..MaxFragments,
        f \in Variants("1", MaxFragLen)}

\* the caller's slice over list a, with spare capacity holding "99"
Spare(a, spare) == [array |-> a \o Repeat(<<"9", "9">>, spare), len |-> Len(a)]

SliceInputs ==
    {Spare(a, spare) : a \in MixedLists \cup OneOffLists, spare \in 0..MaxSpare}

PartInputs == {Spare(a, spare) : a \in OneOffLists, spare \in 0..MaxSpare}

DashedInputs ==
    {Join(a, <<"-">>) : a \in MixedLists \cup OneOffLists}

First6Inputs == Variants("5", MaxFirst6Len)

Last4Inputs == Variants("3", MaxLast4Len)

NoSlice == [array |-> <<>>, len |-> 0]

----------------------------------------------------------------------------
(* The caller: one constructor call, then Validate on the Info returned *)

Init ==
    /\ pc = "ready"
    /\ ret = NoInfo
    /\ err = nil
    /\ verr = nil
    /\ \/ /\ call \in {"FromSlice"}
          /\ arr \in SliceInputs
          /\ str = <<>> /\ first6 = <<>> /\ last4 = <<>>
       \/ /\ call = "FromPart"
          /\ arr \in PartInputs
          /\ str = <<>> /\ first6 = <<>> /\ last4 = <<>>
       \/ /\ call = "FromDashed"
          /\ str \in DashedInputs
          /\ arr = NoSlice /\ first6 = <<>> /\ last4 = <<>>
       \/ /\ call = "FromRaw"
          /\ str \in RawInputs
          /\ arr = NoSlice /\ first6 = <<>> /\ last4 = <<>>
       \/ /\ call = "FromMasked"
          /\ first6 \in First6Inputs
          /\ last4 \in Last4Inputs
          /\ arr = NoSlice /\ str = <<>>

Returned(r) ==
    /\ pc' = "returned"
    /\ ret' = r.ret
    /\ err' = r.err

CallFromSlice ==
    /\ pc = "ready" /\ call = "FromSlice"
    /\ Returned(FromSlice(arr))
    /\ arr' = [arr EXCEPT !.array = FromSlice(arr).array]
    /\ UNCHANGED <<call, str, first6, last4, verr>>

CallFromPart ==
    /\ pc = "ready" /\ call = "FromPart"
    /\ Returned(FromPart(arr))
    /\ arr' = [arr EXCEPT !.array = FromPart(arr).array]
    /\ UNCHANGED <<call, str, first6, last4, verr>>

CallFromDashed ==
    /\ pc = "ready" /\ call = "FromDashed"
    /\ Returned(FromDashed(str))
    /\ UNCHANGED <<call, arr, str, first6, last4, verr>>

CallFromRaw ==
    /\ pc = "ready" /\ call = "FromRaw"
    /\ Returned(FromRaw(str))
    /\ UNCHANGED <<call, arr, str, first6, last4, verr>>

CallFromMasked ==
    /\ pc = "ready" /\ call = "FromMasked"
    /\ Returned(FromMasked(first6, last4))
    /\ UNCHANGED <<call, arr, str, first6, last4, verr>>

CallValidate ==
    /\ pc = "returned" /\ err = nil
    /\ pc' = "validated"
    /\ verr' = Validate(ret)
    /\ UNCHANGED <<call, arr, str, first6, last4, ret, err>>

Next ==
    \/ CallFromSlice
    \/ CallFromPart
    \/ CallFromDashed
    \/ CallFromRaw
    \/ CallFromMasked
    \/ CallValidate

Spec == Init /\ [][Next]_vars

----------------------------------------------------------------------------
(* Vocabulary of the properties *)

\* the value of a decimal digit character
DigitVal(c) == CHOOSE d \in 0..9 : DigitChars[d + 1] = c

AllDigits(s) == \A k \in 1..Len(s) : s[k] \in Digit

HasMask(s) == \E k \in 1..Len(s) : s[k] = "*"

\* every character is a digit or the mask
Sectional(s) == \A k \in 1..Len(s) : s[k] \in Digit \cup {"*"}

\* the number a string of four digits reads as
Num4(s) ==
    1000 * DigitVal(s[1]) + 100 * DigitVal(s[2]) + 10 * DigitVal(s[3]) + DigitVal(s[4])

\* a digit doubled, 9 subtracted from a double above 9
Doubled(d) == IF 2 * d > 9 THEN 2 * d - 9 ELSE 2 * d

\* the sum of f[k] for k in S
RECURSIVE SumOver(_, _)
SumOver(f, S) ==
    IF S = {} THEN 0
    ELSE LET k == CHOOSE x \in S : TRUE IN f[k] + SumOver(f, S \ {k})

\* standard Luhn on sixteen digits: counting from the check digit at index 15
\* leftwards, every second digit (indices 14, 12, ..., 0) is doubled
StandardLuhn(d) ==
    SumOver([k \in 0..15 |-> IF k % 2 = 0 THEN Doubled(DigitVal(d[k + 1]))
                             ELSE DigitVal(d[k + 1])], 0..15) % 10 = 0

\* the checksum rule of the package on sixteen digits: over indices 0..14 a
\* digit at an odd index is doubled, and the digit at index 15 is added
OddIndexChecksum(d) ==
    (SumOver([k \in 0..14 |-> IF k % 2 = 1 THEN Doubled(DigitVal(d[k + 1]))
                              ELSE DigitVal(d[k + 1])], 0..14)
        + DigitVal(d[16])) % 10 = 0

\* a constructor has returned to the caller
Done == pc # "ready"

\* FromRaw has returned an Info whose first section is four decimal digits
RawDigitPrefix ==
    Done /\ call = "FromRaw" /\ err = nil /\ AllDigits(ret.pan[1])

\* the issuer the ordered table gives the four digits that read as n
TableType(n) ==
    IF n \div 1000 = 4 THEN VISACard
    ELSE IF n \div 100 \in 51..55 THEN MasterCard
    ELSE IF n \div 100 \in {34, 37} THEN AmericanExpress
    ELSE IF n \in 3528..3589 THEN JCBCard
    ELSE IF n \div 100 \in {62, 81} THEN UnionPay
    ELSE UnknownCardType

\* fragment list a makes FromSlice fail
Malformed(a) ==
    \/ Len(a) > 4
    \/ \E k \in 1..Len(a) : Len(a[k]) > 4 \/ ~Sectional(a[k])

\* section k of fragment list a: the fragment mask-padded, or all mask
Padded(a, k) ==
    IF k <= Len(a) THEN a[k] \o Repeat("*", 4 - Len(a[k])) ELSE Repeat("*", 4)

\* the fragments the caller passes in a "ready" state
Fragments ==
    IF call = "FromDashed" THEN Split(str, "-") ELSE SubSeq(arr.array, 1, arr.len)

SamplePAN ==
    <<"1", "2", "3", "4", "5", "6", "7", "8", "9", "0", "1", "2", "3", "4", "5", "6">>

----------------------------------------------------------------------------
(* Properties *)

\* C1: for every 16-digit string d, FromRaw(d).Validate() is nil exactly when
\* d passes standard Luhn (check digit rightmost, indices 14, 12, ..., 0
\* doubled), and ErrValidate otherwise.
C1_StandardLuhn ==
    (pc = "validated" /\ call = "FromRaw" /\ AllDigits(str))
        => verr = (IF StandardLuhn(str) THEN nil ELSE ErrValidate)

\* C2: for a PAN from FromRaw whose first section is four digits, CardType is
\* MasterCard exactly when the first two digits are 51..55 or the first four
\* lie in 2221..2720.
C2_MasterCardRange ==
    RawDigitPrefix =>
        (CardType(ret) = MasterCard
            <=> \/ Num4(ret.pan[1]) \div 100 \in 51..55
                \/ Num4(ret.pan[1]) \in 2221..2720)

\* C3: Validate on a PAN of any constructor returns ErrValidateMasked if one
\* of the 16 characters is the mask, else nil when the odd-index-doubled sum
\* over indices 0..14 plus the digit at index 15 is 0 modulo 10, else
\* ErrValidate.
C3_ValidateOutcome ==
    pc = "validated" =>
        /\ Len(RawPAN(ret)) = 16
        /\ verr = (IF HasMask(RawPAN(ret)) THEN ErrValidateMasked
                   ELSE IF OddIndexChecksum(RawPAN(ret)) THEN nil
                   ELSE ErrValidate)

\* C3 witness: an unmasked PAN built by FromSlice with a digit above 4 at an
\* odd index was found valid.
C3_Witness ==
    /\ pc = "validated" /\ call = "FromSlice" /\ verr = nil
    /\ \E k \in {2, 4} : DigitVal(ret.pan[2][k]) > 4

C5_FirstMatch ==
    (RawDigitPrefix /\ Num4(ret.pan[1]) \notin 2221..2720)
        => CardType(ret) = TableType(Num4(ret.pan[1]))

\* C5 witness: 3589 followed by masks was classified JCB.
C5_Witness ==
    /\ RawDigitPrefix /\ ret.pan[1] = <<"3", "5", "8", "9">>
    /\ ret.pan[2] = <<"*", "*", "*", "*">>
    /\ CardType(ret) = JCBCard

\* C6: FromSlice, FromPart and FromDashed fail with ErrSection exactly when
\* there are more than 4 fragments or a fragment is longer than 4 or holds a
\* character outside [0-9*]; otherwise they succeed and section k is fragment
\* k right-padded with masks, all mask for a missing fragment.
C6_SectionErrors ==
    [][(pc = "ready" /\ call \in {"FromSlice", "FromPart", "FromDashed"}) =>
          /\ err' = ErrSection <=> Malformed(Fragments)
          /\ err' = nil <=> ~Malformed(Fragments)
          /\ ~Malformed(Fragments) =>
                /\ ret'.pan = [k \in 1..4 |-> Padded(Fragments, k)]
                /\ \A k \in 1..4 : Len(ret'.pan[k]) = 4 /\ Sectional(ret'.pan[k])]_vars

\* C6 witness: FromSlice of fewer than four fragments, one of them short,
\* succeeded with mask padding.
C6_Witness ==
    /\ Done /\ call = "FromSlice" /\ err = nil /\ arr.len = 2
    /\ ret.pan[2] = <<"5", "6", "*", "*">>
    /\ ret.pan[3] = <<"*", "*", "*", "*">>

\* C7: FromRaw fails with ErrRaw iff len(s) # 16, whatever the characters; a
\* string of length 16 fails with ErrSection exactly when it holds a character
\* outside [0-9*] and otherwise yields s[0:4], s[4:8], s[8:12], s[12:16].
C7_RawErrors ==
    (Done /\ call = "FromRaw") =>
        /\ err = ErrRaw <=> Len(str) # 16
        /\ Len(str) = 16 =>
              /\ err = ErrSection <=> ~Sectional(str)
              /\ Sectional(str) =>
                    /\ err = nil
                    /\ ret.pan = <<SubSeq(str, 1, 4), SubSeq(str, 5, 8),
                                   SubSeq(str, 9, 12), SubSeq(str, 13, 16)>>

\* C7 witness: a string of 17 characters holding a letter failed with ErrRaw.
C7_Witness ==
    /\ Done /\ call = "FromRaw" /\ err = ErrRaw
    /\ Len(str) = 17 /\ \E k \in 1..17 : str[k] = "a"

\* C8: for a fully unmasked PAN p of any constructor, FromRaw(p.RawPAN())
\* succeeds with the same four sections and the same CardType.
C8_RoundTrip ==
    (Done /\ err = nil /\ ~HasMask(Join(ret.pan, <<>>))) =>
        LET again == FromRaw(RawPAN(ret))
        IN  /\ again.err = nil
            /\ again.ret.pan = ret.pan
            /\ CardType(again.ret) = CardType(ret)

\* C8 witness: FromDashed returned a fully unmasked PAN.
C8_Witness ==
    /\ Done /\ call = "FromDashed" /\ err = nil
    /\ \A k \in 1..4 : Len(ret.pan[k]) = 4 /\ AllDigits(ret.pan[k])

\* C9 as stated: FromRaw("1234567890123456") yields PAN 1234-5678-9012-3456,
\* Masked 1234-56**-****-3456, Checksum 6 and CardType Visa.
C9_SampleVisa ==
    (Done /\ call = "FromRaw" /\ str = SamplePAN) =>
        /\ err = nil
        /\ PAN(ret) = <<"1", "2", "3", "4", "-", "5", "6", "7", "8", "-",
                        "9", "0", "1", "2", "-", "3", "4", "5", "6">>
        /\ Masked(ret) = <<"1", "2", "3", "4", "-", "5", "6", "*", "*", "-",
                           "*", "*", "*", "*", "-", "3", "4", "5", "6">>
        /\ Checksum(ret) = <<"6">>
        /\ CardType(ret) = VISACard

\* C9 amended: FromRaw("1234567890123456") yields PAN 1234-5678-9012-3456,
\* Masked 1234-56**-****-3456, Checksum 6 and CardType UnknownCardType.
C9_SampleUnknown ==
    (Done /\ call = "FromRaw" /\ str = SamplePAN) =>
        /\ err = nil
        /\ PAN(ret) = <<"1", "2", "3", "4", "-", "5", "6", "7", "8", "-",
                        "9", "0", "1", "2", "-", "3", "4", "5", "6">>
        /\ Masked(ret) = <<"1", "2", "3", "4", "-", "5", "6", "*", "*", "-",
                           "*", "*", "*", "*", "-", "3", "4", "5", "6">>
        /\ Checksum(ret) = <<"6">>
        /\ CardType(ret) = UnknownCardType

\* C9 witness: FromRaw has returned for the sample.
C9_Witness ==
    Done /\ call = "FromRaw" /\ str = SamplePAN /\ err = nil

\* C10: a call of FromSlice leaves every element of the caller's slice, and of
\* its backing array up to its capacity, as it was.
C10_NoSideEffect ==
    [][(pc = "ready" /\ call = "FromSlice") => arr' = arr]_vars

====
